---- MODULE Spec2Model ----
(***************************************************************************)
(* Model of pump_hp.py: the pipe-network head-loss and pump-sizing         *)
(* calculator (compute_velocity, compute_reynolds,                         *)
(* friction_factor_haaland, head_from_minor_losses,                        *)
(* head_from_major_losses, compute_pump_head_and_hp).                      *)
(*                                                                         *)
(* Numbers.  The program computes in IEEE doubles.  The model computes in  *)
(* exact rational arithmetic (a rational is a pair <<n, d>> in lowest      *)
(* terms with d > 0), so that +, -, * and / are the real-number            *)
(* operations.  Two places cannot be exact in bounded integers and are     *)
(* approximated: math.pi is the rational 22/7, and the transcendental      *)
(* operations of the Haaland branch (x**1.11 and math.log10) are evaluated *)
(* by a binary fixed-point algorithm with a 12-bit mantissa, the Haaland   *)
(* value being rounded down to four decimals.                              *)
(*                                                                         *)
(* Exceptions.  A Python call either returns a value or raises.  An        *)
(* outcome is a record [exc, val]: exc = NoExc and val the returned value, *)
(* or exc the exception raised and val = Zero (never read).                *)
(***************************************************************************)
EXTENDS Integers, Sequences, FiniteSets, TLC

VARIABLES params, last, prev, calls, probe

vars == <<params, last, prev, calls, probe>>

----------------------------------------------------------------------------
(* Exact rational arithmetic                                               *)

RECURSIVE GCD(_, _)
GCD(a, b) == IF b = 0 THEN a ELSE GCD(b, a % b)

Abs(a) == IF a < 0 THEN -a ELSE a

\* the rational n/d (d # 0) in lowest terms with a positive denominator
R(n, d) ==
    LET g == GCD(Abs(n), Abs(d))
        s == IF d < 0 THEN -1 ELSE 1
    IN  <<(s * n) \div g, (s * d) \div g>>

Zero == <<0, 1>>
One == <<1, 1>>
Two == <<2, 1>>
Four == <<4, 1>>

RAdd(x, y) ==
    LET l == (x[2] \div GCD(x[2], y[2])) * y[2]
    IN  R(x[1] * (l \div x[2]) + y[1] * (l \div y[2]), l)

RNeg(x) == <<-x[1], x[2]>>

RSub(x, y) == RAdd(x, RNeg(y))

RMul(x, y) ==
    LET g1 == GCD(Abs(x[1]), y[2])
        g2 == GCD(Abs(y[1]), x[2])
    IN  R((x[1] \div g1) * (y[1] \div g2), (x[2] \div g2) * (y[2] \div g1))

\* 1/x for x # 0
RInv(x) == R(x[2], x[1])

\* x/y for y # 0
RDiv(x, y) == RMul(x, RInv(y))

RSq(x) == RMul(x, x)

RLt(x, y) == RSub(x, y)[1] < 0

RLe(x, y) == RSub(x, y)[1] <= 0

IsZero(x) == x[1] = 0

----------------------------------------------------------------------------
(* Python outcomes                                                         *)

NoExc == "none"
ZeroDivisionError == "ZeroDivisionError"
TypeError == "TypeError: must be real number, not complex"
ReError == "ValueError: Re must be positive."
EtaError == "ValueError: pump_efficiency must be in (0, 1]."

Ok(v) == [exc |-> NoExc, val |-> v]
Raise(e) == [exc |-> e, val |-> Zero]
IsOk(o) == o.exc = NoExc

\* Python's x / y on floats
PyDiv(x, y) == IF IsZero(y) THEN Raise(ZeroDivisionError) ELSE Ok(RDiv(x, y))

----------------------------------------------------------------------------
(* math.pi, x ** 1.11 and math.log10 in bounded integers                   *)

\* math.pi
PI == R(22, 7)

RECURSIVE Pow10(_)
Pow10(k) == IF k = 0 THEN 1 ELSE 10 * Pow10(k - 1)

RECURSIVE Pow2(_)
Pow2(k) == IF k = 0 THEN 1 ELSE 2 * Pow2(k - 1)

\* 10 ** (2 ** -i) for i = 1, 2, ... as fixed-point mantissas
RootOfTen == <<12953, 7284, 5462, 4730, 4402, 4246, 4170, 4133, 4114, 4105>>

\* scale of a fixed-point mantissa m, standing for m / MantScale in [1, 10)
MantScale == Pow2(12)
\* number of binary digits of a logarithm's fraction; a logarithm is an
\* integer l standing for l / LogScale
LogBits == Len(RootOfTen)
LogScale == Pow2(LogBits)

\* the decimal exponent k of n/d > 0: 10^k <= n/d < 10^(k+1)
RECURSIVE DecExp(_, _)
DecExp(n, d) ==
    IF n >= 10 * d THEN 1 + DecExp(n, 10 * d)
    ELSE IF n < d THEN DecExp(10 * n, d) - 1
    ELSE 0

\* floor(n * MantScale / d) for 0 < d <= n < 10 * d, halving n and d while
\* the intermediate products would leave 32 bits
RECURSIVE FixDiv(_, _)
FixDiv(n, d) ==
    IF d >= 262144 THEN FixDiv(n \div 2, d \div 2)
    ELSE (n \div d) * MantScale + ((n % d) * MantScale) \div d

\* the mantissa of n/d > 0 with decimal exponent k, as a fixed-point number
Mantissa(n, d, k) ==
    IF k >= 0 THEN FixDiv(n, d * Pow10(k)) ELSE FixDiv(n * Pow10(-k), d)

\* the fraction of log10 of the mantissa m, digit by digit: squaring m
\* doubles its logarithm, and the next binary digit is 1 iff the square
\* reaches 10
RECURSIVE LogFrac(_, _, _)
LogFrac(m, i, acc) ==
    IF i > LogBits THEN acc
    ELSE LET sq == (m * m) \div MantScale
         IN  IF sq >= 10 * MantScale
             THEN LogFrac(sq \div 10, i + 1, acc + Pow2(LogBits - i))
             ELSE LogFrac(sq, i + 1, acc)

\* math.log10(x) for a rational x > 0, in units of 1/LogScale
Log10(x) ==
    LET k == DecExp(x[1], x[2])
    IN  k * LogScale + LogFrac(Mantissa(x[1], x[2], k), 1, 0)

\* 10 ** (frac / LogScale) as a fixed-point mantissa, 0 <= frac < LogScale
RECURSIVE ExpFrac(_, _, _)
ExpFrac(frac, i, m) ==
    IF i > LogBits THEN m
    ELSE IF (frac \div Pow2(LogBits - i)) % 2 = 1
         THEN ExpFrac(frac, i + 1, (m * RootOfTen[i]) \div MantScale)
         ELSE ExpFrac(frac, i + 1, m)

\* 10 ** (l / LogScale) as a rational with three decimals of mantissa
Exp10(l) ==
    LET k == l \div LogScale
        m == (ExpFrac(l % LogScale, 1, MantScale) * 1000) \div MantScale
    IN  IF k >= 0 THEN R(m * Pow10(k), 1000) ELSE R(m, 1000 * Pow10(-k))

\* x ** 1.11 for a rational x >= 0 (Python gives 0.0 ** 1.11 = 0.0)
Pow111(x) ==
    IF IsZero(x) THEN Zero ELSE Exp10((Log10(x) * 111) \div 100)

----------------------------------------------------------------------------
(* Unit helpers and the friction factor                                    *)

\* HP_PER_WATT = 1.0 / 745.699872, the divisor rounded to four digits
HP_PER_WATT == R(10, 7457)

\* fault: the guard written Re < 0
ReNegative(Re) == RLt(Re, Zero)

\* Re <= 0
ReNotPositive(Re) == RLe(Re, Zero)

\* the laminar limit of the Reynolds number
LaminarLimit == 2300

\* fault: the regime test written Re <= 2300
IsLaminarInclusive(Re) == RLe(Re, R(LaminarLimit, 1))

\* Re < 2300
IsLaminar(Re) == RLt(Re, R(LaminarLimit, 1))

\* 64.0 / Re
Laminar(Re) == PyDiv(R(64, 1), Re)

\* a rational 0 < n/d < 1 rounded down to four decimals
RECURSIVE Floor4(_, _)
Floor4(n, d) ==
    IF n >= 200000 THEN Floor4(n \div 2, d \div 2) ELSE R((n * 10000) \div d, 10000)

\* 1.0 / ((-1.8 * math.log10(term)) ** 2) for term > 0
HaalandOfTerm(term) ==
    LET lg == Log10(term)
        x == RSq(R(-18 * lg, 10 * LogScale))
    IN  IF lg = 0 THEN Raise(ZeroDivisionError)
        ELSE IF x[2] < x[1] THEN Ok(Floor4(x[2], x[1]))
        ELSE Ok(RInv(x))

\* term = (rel_roughness / 3.7)**1.11 + 6.9 / Re, for rel_roughness >= 0
HaalandTerm(Re, rel_roughness) ==
    RAdd(Pow111(RDiv(rel_roughness, R(37, 10))), RDiv(R(69, 10), Re))

\* the turbulent branch.  A negative base makes ** return a complex number,
\* which math.log10 rejects.
Haaland(Re, rel_roughness) ==
    IF rel_roughness[1] < 0 THEN Raise(TypeError)
    ELSE HaalandOfTerm(HaalandTerm(Re, rel_roughness))

friction_factor_haaland(Re, rel_roughness) ==
    IF ReNotPositive(Re) THEN Raise(ReError)
    ELSE IF IsLaminar(Re) THEN Laminar(Re)
    ELSE Haaland(Re, rel_roughness)

----------------------------------------------------------------------------
(* Loss elements and system parameters                                     *)

\* diameter_m = None
None == <<>>

MinorLoss(name, K, diameter_m) ==
    [name |-> name, K |-> K, diameter_m |-> diameter_m]

\* Q / (math.pi * D**2 / 4.0)
compute_velocity(Q, D) == PyDiv(Q, RDiv(RMul(PI, RSq(D)), Four))

\* rho * V * D / mu
compute_reynolds(rho, V, D, mu) == PyDiv(RMul(RMul(rho, V), D), mu)

\* D_use of one loss element
DiameterUsed(ml, p) ==
    IF ml.diameter_m # None THEN ml.diameter_m ELSE p.D_main_m

\* the loop of head_from_minor_losses from element i on, h_minor so far
RECURSIVE MinorLoop(_, _, _)
MinorLoop(p, i, h_minor) ==
    IF i > Len(p.minor_losses) THEN Ok(h_minor)
    ELSE LET ml == p.minor_losses[i]
             V_use == compute_velocity(p.Q_m3_s, DiameterUsed(ml, p))
         IN  IF ~IsOk(V_use) THEN V_use
             ELSE LET h == PyDiv(RMul(ml.K, RSq(V_use.val)), RMul(Two, p.g_m_s2))
                  IN  IF ~IsOk(h) THEN h
                      ELSE MinorLoop(p, i + 1, RAdd(h_minor, h.val))

\* fault: the loop taking the velocity of an element without a diameter of
\* its own from the V_main argument
RECURSIVE MinorLoopVMain(_, _, _, _)
MinorLoopVMain(p, V_main, i, h_minor) ==
    IF i > Len(p.minor_losses) THEN Ok(h_minor)
    ELSE LET ml == p.minor_losses[i]
             V_use == IF ml.diameter_m # None
                      THEN compute_velocity(p.Q_m3_s, ml.diameter_m)
                      ELSE Ok(V_main)
         IN  IF ~IsOk(V_use) THEN V_use
             ELSE LET h == PyDiv(RMul(ml.K, RSq(V_use.val)), RMul(Two, p.g_m_s2))
                  IN  IF ~IsOk(h) THEN h
                      ELSE MinorLoopVMain(p, V_main, i + 1, RAdd(h_minor, h.val))

head_from_minor_losses_VMain(p, V_main) == MinorLoopVMain(p, V_main, 1, Zero)

head_from_minor_losses(p, V_main) == MinorLoop(p, 1, Zero)

head_from_major_losses(p, V_main) ==
    LET Re == compute_reynolds(p.rho_kg_m3, V_main, p.D_main_m, p.mu_Pa_s)
        rel_rough == PyDiv(p.eps_m, p.D_main_m)
    IN  IF ~IsOk(Re) THEN Re
        ELSE IF ~IsOk(rel_rough) THEN rel_rough
        ELSE LET f == friction_factor_haaland(Re.val, rel_rough.val)
             IN  IF ~IsOk(f) THEN f
                 ELSE PyDiv(RMul(RMul(f.val, RDiv(p.L_main_m, p.D_main_m)),
                                 RSq(V_main)),
                            RMul(Two, p.g_m_s2))

----------------------------------------------------------------------------
(* compute_pump_head_and_hp                                                *)

\* fault: the exit loss given the coefficient of an entrance, K = 0.5
ExitLossHalf(p) == MinorLoss("Exit to reservoir", R(1, 2), p.D_main_m)

\* exit_loss = MinorLoss(name="Exit to reservoir", K=1.0, diameter_m=D_main)
ExitLoss(p) == MinorLoss("Exit to reservoir", One, p.D_main_m)

\* temp_params: a new SystemParams whose list is a new list,
\* params.minor_losses + [exit_loss]
TempParams(p) ==
    [p EXCEPT !.minor_losses = Append(p.minor_losses, ExitLoss(p))]

\* fault: the exit loss appended to the caller's own list,
\* params.minor_losses.append(exit_loss)
CallerParamsInPlace(p) ==
    IF p.point2_is_reservoir_free_surface THEN TempParams(p) ELSE p

\* the caller's params object after the branch on the modeling choice: the
\* exit loss goes to a new list of a new object, the argument is not assigned
CallerParams(p) == p

\* fault: the kinetic term kept under both modeling choices
V2TermAlways(p, V_main) == PyDiv(RSq(V_main), RMul(Two, p.g_m_s2))

\* V2_term
V2Term(p, V_main) ==
    IF p.point2_is_reservoir_free_surface THEN Ok(Zero)
    ELSE PyDiv(RSq(V_main), RMul(Two, p.g_m_s2))

\* fault: the exit loss left out of the free-surface branch
MinorOfBranchNoExit(p, V_main) == head_from_minor_losses(p, V_main)

\* h_minor of the branch taken
MinorOfBranch(p, V_main) ==
    IF p.point2_is_reservoir_free_surface
    THEN head_from_minor_losses(TempParams(p), V_main)
    ELSE head_from_minor_losses(p, V_main)

\* h_L = h_minor + h_major
TotalLoss(h_minor, h_major) == RAdd(h_minor, h_major)

\* fault: the kinetic term left out of the pump head
PumpHeadNoKinetic(delta_z, V2_term, h_L) == RAdd(delta_z, h_L)

\* H_pump = delta_z + V2_term + h_L
PumpHead(delta_z, V2_term, h_L) == RAdd(RAdd(delta_z, V2_term), h_L)

\* fault: the range written 0 < pump_efficiency < 1.0
EfficiencyBelowOne(eta) == RLt(Zero, eta) /\ RLt(eta, One)

\* 0 < pump_efficiency <= 1.0
EfficiencyInRange(eta) == RLt(Zero, eta) /\ RLe(eta, One)

\* the returned dict
ResultRecord(V_main, delta_z, h_major, h_minor, h_L, H_pump, P_hyd_W, P_shaft_W, P_shaft_hp) ==
    [V_main_m_s |-> V_main,
     delta_z_m |-> delta_z,
     h_major_m |-> h_major,
     h_minor_m |-> h_minor,
     h_total_losses_m |-> h_L,
     pump_head_m |-> H_pump,
     hydraulic_power_W |-> P_hyd_W,
     shaft_power_W |-> P_shaft_W,
     shaft_power_hp |-> P_shaft_hp]

\* the outcome of a call: the exception raised or the dict returned, and
\* the state in which the call leaves the caller's params object
Raised(e, after) == [exc |-> e, val |-> <<>>, params |-> after]
Returned(v, after) == [exc |-> NoExc, val |-> v, params |-> after]

\* lines 116-135, once the heads are known
PowerAndRecord(p, V_main, delta_z, V2_term, h_minor, h_major, after) ==
    LET h_L == TotalLoss(h_minor, h_major)
        H_pump == PumpHead(delta_z, V2_term, h_L)
        P_hyd_W == RMul(RMul(RMul(p.rho_kg_m3, p.g_m_s2), p.Q_m3_s), H_pump)
        P_shaft_W == RDiv(P_hyd_W, p.pump_efficiency)
        P_shaft_hp == RMul(P_shaft_W, HP_PER_WATT)
    IN  IF ~EfficiencyInRange(p.pump_efficiency) THEN Raised(EtaError, after)
        ELSE Returned(ResultRecord(V_main, delta_z, h_major, h_minor, h_L,
                                   H_pump, P_hyd_W, P_shaft_W, P_shaft_hp),
                      after)

compute_pump_head_and_hp(p) ==
    LET V_main == compute_velocity(p.Q_m3_s, p.D_main_m)
        delta_z == RSub(p.z2_m, p.z1_m)
        after == CallerParams(p)
    IN  IF ~IsOk(V_main) THEN Raised(V_main.exc, p)
        ELSE LET V2_term == V2Term(p, V_main.val)
                 h_minor == MinorOfBranch(p, V_main.val)
                 h_major == head_from_major_losses(p, V_main.val)
             IN  IF ~IsOk(V2_term) THEN Raised(V2_term.exc, after)
                 ELSE IF ~IsOk(h_minor) THEN Raised(h_minor.exc, after)
                 ELSE IF ~IsOk(h_major) THEN Raised(h_major.exc, after)
                 ELSE PowerAndRecord(p, V_main.val, delta_z, V2_term.val,
                                     h_minor.val, h_major.val, after)

----------------------------------------------------------------------------
(* Configurations                                                          *)

\* longest minor-loss inventory a caller supplies
MaxLosses == 2
\* calls of compute_pump_head_and_hp in one run
MaxCalls == 2

\* Q = q * 11/14 gives V = q / D**2 with PI = 22/7, and rho / mu = 1150 puts
\* the Reynolds numbers of q = 1, 3 and D = 1, 1/2 at 1150, 2300, 3450, 6900
QSet == {R(-11, 14), Zero, R(11, 14), R(33, 14)}
DSet == {R(-1, 1), Zero, R(1, 2), One}
EpsSet == {Zero, R(37, 1000)}
EtaSet == {R(-1, 2), Zero, R(1, 2), One, R(3, 2)}

ElementSet ==
    {MinorLoss("Tee branch", One, None),
     MinorLoss("Contraction", R(2, 5), R(1, 2)),
     MinorLoss("Plug", One, Zero)}

RECURSIVE SeqsUpTo(_, _)
SeqsUpTo(S, n) ==
    IF n = 0 THEN {<<>>}
    ELSE LET shorter == SeqsUpTo(S, n - 1)
         IN  shorter \cup {Append(s, e) : s \in shorter, e \in S}

SystemParams(Q, D, eps, eta, flag, losses) ==
    [Q_m3_s |-> Q,
     z1_m |-> Zero,
     z2_m |-> R(3, 2),
     D_main_m |-> D,
     L_main_m |-> R(10, 1),
     rho_kg_m3 |-> R(23, 1),
     mu_Pa_s |-> R(1, 50),
     g_m_s2 |-> R(5, 1),
     eps_m |-> eps,
     pump_efficiency |-> eta,
     point2_is_reservoir_free_surface |-> flag,
     minor_losses |-> losses]

ParamSet ==
    {SystemParams(Q, D, eps, eta, flag, losses) :
        Q \in QSet, D \in DSet, eps \in EpsSet, eta \in EtaSet,
        flag \in BOOLEAN, losses \in SeqsUpTo(ElementSet, MaxLosses)}

----------------------------------------------------------------------------
(* The caller: one configuration, solved any number of times, the modeling *)
(* choice switched between calls                                           *)

NoCall == [called |-> FALSE, cfg |-> <<>>, exc |-> NoExc, val |-> <<>>]
NoProbe == [fn |-> "none", args |-> <<>>, out |-> Ok(Zero)]

Init ==
    /\ params \in ParamSet
    /\ last = NoCall
    /\ prev = NoCall
    /\ calls = 0
    /\ probe = NoProbe

\* results = compute_pump_head_and_hp(params)
Solve ==
    /\ calls < MaxCalls
    /\ LET out == compute_pump_head_and_hp(params)
       IN  /\ last' = [called |-> TRUE, cfg |-> params, exc |-> out.exc,
                       val |-> out.val]
           /\ params' = out.params
    /\ prev' = last
    /\ calls' = calls + 1
    /\ UNCHANGED probe

\* the caller switches the modeling choice of its configuration
SetFlag ==
    /\ params' = [params EXCEPT !.point2_is_reservoir_free_surface = ~@]
    /\ UNCHANGED <<last, prev, calls, probe>>

Next == Solve \/ SetFlag

Spec == Init /\ [][Next]_vars

----------------------------------------------------------------------------
(* The functions called directly: one call on a fresh configuration         *)

ReSet ==
    {R(-100, 1), Zero, One, R(1000, 1), R(2299, 1), R(LaminarLimit, 1),
     R(3450, 1), R(6900, 1), R(69000, 1)}
RoughnessSet == {R(-1, 1000), Zero, R(37, 1000), R(37, 2000)}
VMainSet == {Zero, One, R(7, 1)}

ParamSetFn ==
    {p \in ParamSet : p.pump_efficiency = R(1, 2) /\ p.eps_m = Zero}

InitFn ==
    /\ params \in ParamSetFn
    /\ last = NoCall
    /\ prev = NoCall
    /\ calls = 0
    /\ probe = NoProbe

CallVelocity ==
    /\ probe = NoProbe
    /\ \E Q \in QSet, D \in DSet :
          probe' = [fn |-> "compute_velocity", args |-> <<Q, D>>,
                    out |-> compute_velocity(Q, D)]
    /\ UNCHANGED <<params, last, prev, calls>>

CallFriction ==
    /\ probe = NoProbe
    /\ \E Re \in ReSet, rel_roughness \in RoughnessSet :
          probe' = [fn |-> "friction_factor_haaland",
                    args |-> <<Re, rel_roughness>>,
                    out |-> friction_factor_haaland(Re, rel_roughness)]
    /\ UNCHANGED <<params, last, prev, calls>>

CallMinor ==
    /\ probe = NoProbe
    /\ \E V_main \in VMainSet :
          probe' = [fn |-> "head_from_minor_losses",
                    args |-> <<params, V_main>>,
                    out |-> head_from_minor_losses(params, V_main)]
    /\ UNCHANGED <<params, last, prev, calls>>

CallSolve ==
    /\ probe = NoProbe
    /\ LET out == compute_pump_head_and_hp(params)
       IN  /\ probe' = [fn |-> "compute_pump_head_and_hp",
                        args |-> <<params>>,
                        out |-> [exc |-> out.exc, val |-> out.val]]
           /\ params' = out.params
    /\ UNCHANGED <<last, prev, calls>>

NextFn == CallVelocity \/ CallFriction \/ CallMinor \/ CallSolve

SpecFn == InitFn /\ [][NextFn]_vars

----------------------------------------------------------------------------
(* Properties                                                              *)

LastOk == last.called /\ last.exc = NoExc
PrevOk == prev.called /\ prev.exc = NoExc

\* V**2 / (2 g)
VelocityHead(cfg, V) == RDiv(RSq(V), RMul(Two, cfg.g_m_s2))

\* the kinetic-energy term at point 2 of a returned record
KineticTerm(cfg, rec) ==
    IF cfg.point2_is_reservoir_free_surface THEN Zero
    ELSE VelocityHead(cfg, rec.V_main_m_s)

\* the last two calls both returned, on configurations that differ only in
\* point2_is_reservoir_free_surface
FlagPair ==
    /\ LastOk
    /\ PrevOk
    /\ last.cfg # prev.cfg
    /\ [last.cfg EXCEPT !.point2_is_reservoir_free_surface = ~@] = prev.cfg

FreeSurfaceRecord ==
    IF last.cfg.point2_is_reservoir_free_surface THEN last.val ELSE prev.val
PipeOutletRecord ==
    IF last.cfg.point2_is_reservoir_free_surface THEN prev.val ELSE last.val

NineFields ==
    {"V_main_m_s", "delta_z_m", "h_major_m", "h_minor_m", "h_total_losses_m",
     "pump_head_m", "hydraulic_power_W", "shaft_power_W", "shaft_power_hp"}

\* C1: compute_velocity(Q, D) raises for every diameter D <= 0, zero and
\* negative alike, and returns no velocity for such a D.
C1_VelocityRaisesForNonPositiveD ==
    (probe.fn = "compute_velocity" /\ RLe(probe.args[2], Zero))
        => probe.out.exc # NoExc

\* C2: compute_pump_head_and_hp raises whenever pump_efficiency is outside
\* (0, 1] and then returns no record; the exception is the efficiency error
\* when the rest of the configuration is valid; and for an efficiency in
\* (0, 1] the efficiency error is never raised.
C2_EfficiencyOutOfRangeRaises ==
    last.called =>
        LET eta == last.cfg.pump_efficiency
            inRange == RLt(Zero, eta) /\ RLe(eta, One)
            otherwiseValid ==
                compute_pump_head_and_hp(
                    [last.cfg EXCEPT !.pump_efficiency = One]).exc = NoExc
        IN  /\ ~inRange => (last.exc # NoExc /\ last.val = <<>>)
            /\ (~inRange /\ otherwiseValid) => last.exc = EtaError
            /\ inRange => last.exc # EtaError

C2_Witness ==
    /\ last.called
    /\ last.cfg.pump_efficiency = R(3, 2)
    /\ last.exc = EtaError

\* C3 as stated: the returned record has, beside the nine other fields, a
\* field holding the kinetic-energy term at point 2.
C3_RecordHasKineticField ==
    LastOk =>
        \E k \in DOMAIN last.val \ NineFields :
            last.val[k] = KineticTerm(last.cfg, last.val)

\* C3 amended: the returned record has exactly the nine fields main-line
\* velocity, elevation difference, major loss, minor loss, total loss, pump
\* head, hydraulic power, shaft power and shaft horsepower; the kinetic term
\* is no field of it and is held only inside the pump head: pump head minus
\* elevation difference minus total loss is 0 under the free-surface choice
\* and V_main^2/(2g) otherwise.
C3_KineticTermOnlyInPumpHead ==
    LastOk =>
        /\ DOMAIN last.val = NineFields
        /\ RSub(RSub(last.val.pump_head_m, last.val.delta_z_m),
                last.val.h_total_losses_m)
             = KineticTerm(last.cfg, last.val)

C3_Witness ==
    /\ LastOk
    /\ ~last.cfg.point2_is_reservoir_free_surface
    /\ RLt(Zero, KineticTerm(last.cfg, last.val))
    /\ "V2_term" \notin DOMAIN last.val

\* C4: of two configurations that differ only in the modeling choice, the
\* free-surface one reports a strictly greater minor loss, by exactly one
\* K = 1 term at the main diameter, V_main^2/(2g).
C4_ExitLossIsOneVelocityHead ==
    FlagPair =>
        /\ RSub(FreeSurfaceRecord.h_minor_m, PipeOutletRecord.h_minor_m)
             = VelocityHead(last.cfg, last.val.V_main_m_s)
        /\ RLt(PipeOutletRecord.h_minor_m, FreeSurfaceRecord.h_minor_m)

C4_Witness ==
    /\ FlagPair
    /\ Len(last.cfg.minor_losses) >= 1
    /\ RLt(Zero, PipeOutletRecord.h_minor_m)

\* C5: friction_factor_haaland raises "Re must be positive" for every
\* Re <= 0 whatever the relative roughness, before 64/Re or the Haaland
\* formula is evaluated (neither a division by zero nor a complex power is
\* seen); and compute_pump_head_and_hp raises for every configuration whose
\* computed Reynolds number is <= 0.
C5_NonPositiveReynoldsRaises ==
    /\ (probe.fn = "friction_factor_haaland" /\ RLe(probe.args[1], Zero))
           => probe.out.exc = ReError
    /\ (probe.fn = "compute_pump_head_and_hp"
        /\ ~IsZero(probe.args[1].D_main_m)
        /\ ~IsZero(probe.args[1].mu_Pa_s))
           => LET p == probe.args[1]
                  V == RDiv(p.Q_m3_s, RDiv(RMul(PI, RSq(p.D_main_m)), Four))
                  Re == RDiv(RMul(RMul(p.rho_kg_m3, V), p.D_main_m), p.mu_Pa_s)
              IN  RLe(Re, Zero) => probe.out.exc # NoExc

C5_Witness ==
    /\ probe.fn = "friction_factor_haaland"
    /\ IsZero(probe.args[1])
    /\ probe.args[2][1] < 0
    /\ probe.out.exc = ReError

\* C6: the regime is chosen by the Reynolds number alone: for 0 < Re < 2300
\* the result is 64/Re whatever the roughness, and for Re >= 2300, 2300
\* included, it is the Haaland value and not 64/Re.
C6_RegimeByReynoldsThreshold ==
    probe.fn = "friction_factor_haaland" =>
        LET Re == probe.args[1]
            rr == probe.args[2]
        IN  /\ (RLt(Zero, Re) /\ RLt(Re, R(2300, 1)))
                   => probe.out = Ok(RDiv(R(64, 1), Re))
            /\ RLe(R(2300, 1), Re)
                   => /\ probe.out = Haaland(Re, rr)
                      /\ probe.out # Ok(RDiv(R(64, 1), Re))

C6_Witness ==
    /\ probe.fn = "friction_factor_haaland"
    /\ probe.args[1] = R(2300, 1)
    /\ probe.args[2] = R(37, 1000)
    /\ probe.out.exc = NoExc
    /\ RLt(R(64, 2300), probe.out.val)

\* C7: in every returned record the total loss is major loss plus minor
\* loss, and the pump head is (z2 - z1) plus the kinetic term at point 2
\* plus the total loss, the kinetic term being 0 under the free-surface
\* choice and V_main^2/(2g) at a pipe outlet.
C7_HeadBalance ==
    LastOk =>
        /\ last.val.h_total_losses_m
             = RAdd(last.val.h_major_m, last.val.h_minor_m)
        /\ last.val.pump_head_m
             = RAdd(RAdd(RSub(last.cfg.z2_m, last.cfg.z1_m),
                         KineticTerm(last.cfg, last.val)),
                    last.val.h_total_losses_m)

C7_Witness ==
    /\ LastOk
    /\ ~last.cfg.point2_is_reservoir_free_surface
    /\ RLt(Zero, last.val.h_major_m)
    /\ RLt(Zero, last.val.h_minor_m)

\* C8: a call leaves the caller's configuration as it was passed (the only
\* field that differs afterwards is the modeling choice, which the caller
\* itself switches), in particular the exit loss is never added to the
\* caller's inventory; so a repeated call on the same configuration gives
\* the same outcome.
C8_CallLeavesConfigurationUnchanged ==
    last.called =>
        /\ [params EXCEPT !.point2_is_reservoir_free_surface =
                last.cfg.point2_is_reservoir_free_surface] = last.cfg
        /\ params.minor_losses = last.cfg.minor_losses
        /\ (prev.called /\ prev.cfg.point2_is_reservoir_free_surface
                             = last.cfg.point2_is_reservoir_free_surface)
               => /\ prev.cfg = last.cfg
                  /\ prev.exc = last.exc
                  /\ last.exc = NoExc => prev.val = last.val

C8_Witness ==
    /\ LastOk
    /\ PrevOk
    /\ prev.cfg = last.cfg
    /\ last.cfg.point2_is_reservoir_free_surface
    /\ Len(params.minor_losses) >= 1
    /\ prev.val = last.val

\* the sum of K * V_e^2/(2g) over the first n elements, V_e the velocity of
\* Q at the element's own diameter, or at the main diameter without one
RECURSIVE MinorSum(_, _)
MinorSum(p, n) ==
    IF n = 0 THEN Zero
    ELSE LET ml == p.minor_losses[n]
             D_e == IF ml.diameter_m = None THEN p.D_main_m ELSE ml.diameter_m
             V_e == RDiv(p.Q_m3_s, RDiv(RMul(PI, RSq(D_e)), Four))
         IN  RAdd(MinorSum(p, n - 1),
                  RDiv(RMul(ml.K, RSq(V_e)), RMul(Two, p.g_m_s2)))

\* every element of the inventory has a velocity
EveryDiameterNonZero(p) ==
    \A i \in 1..Len(p.minor_losses) :
        ~IsZero(IF p.minor_losses[i].diameter_m = None
                THEN p.D_main_m ELSE p.minor_losses[i].diameter_m)

\* C9: head_from_minor_losses returns the sum over the inventory of
\* K * V_e^2/(2g), V_e being the velocity of Q at the element's own diameter
\* when it has one and at the main diameter otherwise; an empty inventory
\* gives 0, and the V_main argument has no influence.
C9_MinorLossIsSumOverInventory ==
    probe.fn = "head_from_minor_losses" =>
        LET p == probe.args[1]
        IN  /\ EveryDiameterNonZero(p)
                   => probe.out = Ok(MinorSum(p, Len(p.minor_losses)))
            /\ p.minor_losses = <<>> => probe.out = Ok(Zero)

C9_Witness ==
    /\ probe.fn = "head_from_minor_losses"
    /\ Len(probe.args[1].minor_losses) = 2
    /\ probe.args[1].minor_losses[1].diameter_m = None
    /\ probe.args[1].minor_losses[2].diameter_m = R(1, 2)
    /\ probe.args[1].Q_m3_s = R(33, 14)
    /\ probe.args[1].D_main_m = One
    /\ probe.args[2] = R(7, 1)
    /\ probe.out = Ok(R(333, 50))

\* C10: two configurations that differ only in the modeling choice get the
\* same pump head and the same hydraulic and shaft power: the kinetic term
\* dropped under the free-surface choice comes back as the exit loss.
C10_ModelingChoiceKeepsHeadAndPower ==
    FlagPair =>
        /\ last.val.pump_head_m = prev.val.pump_head_m
        /\ last.val.hydraulic_power_W = prev.val.hydraulic_power_W
        /\ last.val.shaft_power_W = prev.val.shaft_power_W
        /\ last.val.shaft_power_hp = prev.val.shaft_power_hp

C10_Witness ==
    /\ FlagPair
    /\ last.cfg.pump_efficiency = R(1, 2)
    /\ FreeSurfaceRecord.h_total_losses_m # PipeOutletRecord.h_total_losses_m
    /\ RLt(last.val.delta_z_m, last.val.pump_head_m)

====
